---- MODULE Spec2Model ----
(***************************************************************************)
(* Model of the WordPress blog provider (src/WordPressBlogProvider.ts)     *)
(* and of its per-agent state slice (src/state/WordPressBlogState.ts).     *)
(*                                                                         *)
(* Spec runs the provider one operation at a time: every action is one     *)
(* whole handler, from its call to its return or throw, with the answers   *)
(* of the WordPress backend drawn by the action.  `last` records the       *)
(* operation that has just completed: its input, the slot it found, the    *)
(* backend calls it issued, its return value and its error.  The caller    *)
(* takes the outcome (Settle) before it issues the next operation.         *)
(***************************************************************************)
EXTENDS Integers, Sequences, FiniteSets, TLC

VARIABLES slots, tagStore, last

vars == <<slots, tagStore, last>>

----------------------------------------------------------------------------
(* Bounds of the model *)

\* largest post id the backend hands out
MaxPostId == 2
\* largest number of tags the backend stores
MaxTags == 2
\* largest number of status translations applied in a row
MaxChain == 3
\* largest number of names given to one tag resolution
MaxTagNames == 3
\* largest number of operations run while one updatePost is suspended
MaxBetween == 2

----------------------------------------------------------------------------
(* JavaScript values *)

\* null and undefined, where the code holds an object or one of them
Null == [js |-> "null"]
Undefined == [js |-> "undefined"]

\* an optional property of an input object: absent, or present with a value
None == <<>>
Some(v) == <<v>>

\* the boolean false, where the code reads a value of any type
False == [js |-> "false"]

\* truthiness of a value that is an object, null, undefined or false
Truthy(v) == v \notin {Null, Undefined, False}

\* an array, where the code may hold null or undefined instead
Array(items) == [items |-> items]

\* a || b on object references
OrElse(a, b) == IF Truthy(a) THEN a ELSE b

\* the agents the provider serves in Spec
Sessions == {"A", "B"}

----------------------------------------------------------------------------
(* Strings that the code parses or prints are sequences of characters *)

Chars == {"0", "1", "2", "x"}
Digits == {"0", "1", "2", "3", "4", "5", "6", "7", "8", "9"}

DigitVal(c) ==
  CASE c = "0" -> 0 [] c = "1" -> 1 [] c = "2" -> 2 [] c = "3" -> 3
    [] c = "4" -> 4 [] c = "5" -> 5 [] c = "6" -> 6 [] c = "7" -> 7
    [] c = "8" -> 8 [] c = "9" -> 9

DigitChar(d) ==
  CASE d = 0 -> "0" [] d = 1 -> "1" [] d = 2 -> "2" [] d = 3 -> "3"
    [] d = 4 -> "4" [] d = 5 -> "5" [] d = 6 -> "6" [] d = 7 -> "7"
    [] d = 8 -> "8" [] d = 9 -> "9"

\* all strings over Chars of length at most n
StringsUpTo(n) == UNION {[1..k -> Chars] : k \in 0..n}

\* the id strings given to selectPostById
IdStrings == StringsUpTo(2)

\* the longest prefix of str made of digits
RECURSIVE DigitPrefix(_)
DigitPrefix(str) ==
  IF str = <<>> \/ Head(str) \notin Digits THEN <<>>
  ELSE <<Head(str)>> \o DigitPrefix(Tail(str))

\* the value of a string of digits in base 10
RECURSIVE DigitsValue(_)
DigitsValue(ds) ==
  IF ds = <<>> THEN 0
  ELSE 10 * DigitsValue(SubSeq(ds, 1, Len(ds) - 1)) + DigitVal(ds[Len(ds)])

\* str without its leading blanks
RECURSIVE TrimStart(_)
TrimStart(str) ==
  IF str /= <<>> /\ Head(str) = " " THEN TrimStart(Tail(str)) ELSE str

\* parseInt(str, 10): None for NaN, else Some(the integer).  Leading blanks
\* are skipped, one sign is read, then the longest run of digits; whatever
\* follows the digits is ignored.
parseInt(str) ==
  LET t == TrimStart(str)
      signed == t /= <<>> /\ Head(t) \in {"+", "-"}
      body == IF signed THEN Tail(t) ELSE t
      ds == DigitPrefix(body)
  IN  IF ds = <<>> THEN None
      ELSE IF signed /\ Head(t) = "-" THEN Some(0 - DigitsValue(ds))
      ELSE Some(DigitsValue(ds))

\* Number.prototype.toString() of an integer
RECURSIVE NatToString(_)
NatToString(n) ==
  IF n < 10 THEN <<DigitChar(n)>>
  ELSE NatToString(n \div 10) \o <<DigitChar(n % 10)>>

toString(n) == IF n < 0 THEN <<"-">> \o NatToString(0 - n) ELSE NatToString(n)

----------------------------------------------------------------------------
(* Native posts (WPPost) and their translation *)

\* A native post.  id is a number, status a string, modified_gmt and
\* date_gmt are time stamps: the code tests each for truthiness only, and a
\* missing one is written as the falsy value of its type (0, "").  title
\* and content are objects or undefined.
Rendered == [rendered |-> "Hello"]
RenderedContent == [rendered |-> "<p>Hello</p>", protected |-> FALSE]

NativeStatuses == {"publish", "future", "draft", "pending", "private"}

WPPosts ==
  [id : 0..MaxPostId,
   title : {Undefined, Rendered},
   content : {Undefined, RenderedContent},
   status : {""} \cup NativeStatuses \cup {"trash"},
   modified_gmt : 0..1,
   date_gmt : 0..1]

\* the number of required fields a post lacks
Lacks(p) ==
  (IF p.id = 0 THEN 1 ELSE 0) + (IF p.title = Undefined THEN 1 ELSE 0)
  + (IF p.content = Undefined THEN 1 ELSE 0) + (IF p.status = "" THEN 1 ELSE 0)

\* The posts the backend answers with in Spec: published posts with a
\* modification time and no publication time, lacking at most one of the
\* required fields.
BackendPosts ==
  {p \in WPPosts : /\ p.status \in {"", "publish"}
                   /\ p.modified_gmt = 1 /\ p.date_gmt = 0
                   /\ Lacks(p) <= 1}

\* errors: a kind and, where the message names something, what it names
Error(kind, arg) == [kind |-> kind, arg |-> arg]
NoError == Error("none", <<>>)

\* the outcome of a call: a returned value or a thrown error
Return(v) == [error |-> NoError, value |-> v]
Throw(e) == [error |-> e, value |-> Undefined]

\* mutant: a status the table does not hold is passed on as it is
statusMapKeepsUnknown(status) ==
  CASE status = "publish" -> "published"
    [] status = "future" -> "scheduled"
    [] OTHER -> status

\* statusMap[status] ?? "draft"
statusMapToDomain(status) ==
  CASE status = "publish" -> "published"
    [] status = "future" -> "scheduled"
    [] status = "draft" -> "draft"
    [] status = "pending" -> "pending"
    [] status = "private" -> "private"
    [] OTHER -> "draft"

\* new Date(stamp)
Date(stamp) == [time |-> stamp]

\* mutant: created_at is taken from the publication time
WPPostToBlogPostCreatedFromDate(post, now) ==
  IF post.id = 0 THEN Throw(Error("MissingField", <<"id">>))
  ELSE IF ~Truthy(post.title) THEN Throw(Error("MissingField", <<"title">>))
  ELSE IF ~Truthy(post.content) THEN Throw(Error("MissingField", <<"content">>))
  ELSE IF post.status = "" THEN Throw(Error("MissingField", <<"status">>))
  ELSE Return([id |-> toString(post.id),
               title |-> post.title.rendered,
               content |-> post.content.rendered,
               status |-> statusMapToDomain(post.status),
               created_at |-> IF post.date_gmt /= 0 THEN Date(post.date_gmt) ELSE Date(now),
               updated_at |-> IF post.modified_gmt /= 0 THEN Date(post.modified_gmt) ELSE Date(now),
               published_at |-> IF post.date_gmt /= 0 THEN Date(post.date_gmt) ELSE Date(now)])

\* mutant: the translation checks status before the other fields
WPPostToBlogPostStatusFirst(post, now) ==
  IF post.status = "" THEN Throw(Error("MissingField", <<"status">>))
  ELSE IF post.id = 0 THEN Throw(Error("MissingField", <<"id">>))
  ELSE IF ~Truthy(post.title) THEN Throw(Error("MissingField", <<"title">>))
  ELSE IF ~Truthy(post.content) THEN Throw(Error("MissingField", <<"content">>))
  ELSE Return([id |-> toString(post.id),
               title |-> post.title.rendered,
               content |-> post.content.rendered,
               status |-> statusMapToDomain(post.status),
               created_at |-> IF post.modified_gmt /= 0 THEN Date(post.modified_gmt) ELSE Date(now),
               updated_at |-> IF post.modified_gmt /= 0 THEN Date(post.modified_gmt) ELSE Date(now),
               published_at |-> IF post.date_gmt /= 0 THEN Date(post.date_gmt) ELSE Date(now)])

WPPostToBlogPost(post, now) ==
  IF post.id = 0 THEN Throw(Error("MissingField", <<"id">>))
  ELSE IF ~Truthy(post.title) THEN Throw(Error("MissingField", <<"title">>))
  ELSE IF ~Truthy(post.content) THEN Throw(Error("MissingField", <<"content">>))
  ELSE IF post.status = "" THEN Throw(Error("MissingField", <<"status">>))
  ELSE Return([id |-> toString(post.id),
               title |-> post.title.rendered,
               content |-> post.content.rendered,
               status |-> statusMapToDomain(post.status),
               created_at |-> IF post.modified_gmt /= 0 THEN Date(post.modified_gmt) ELSE Date(now),
               updated_at |-> IF post.modified_gmt /= 0 THEN Date(post.modified_gmt) ELSE Date(now),
               published_at |-> IF post.date_gmt /= 0 THEN Date(post.date_gmt) ELSE Date(now)])

----------------------------------------------------------------------------
(* WordPressBlogState: the slice holding the current post of one agent *)

\* mutant: the constructor keeps what it is given, without "|| null"
WordPressBlogStateKeeps(props) == props.currentPost

\* constructor({currentPost}): the initial currentPost
WordPressBlogState(props) == OrElse(props.currentPost, Null)

\* mutant: reset looks at the first scope only
resetFirstScope(currentPost, what) ==
  IF what /= <<>> /\ what[1] = "chat" THEN Null ELSE currentPost

\* mutant: reset empties the slice whatever the scopes
resetAlways(currentPost, what) == Null

\* reset(what): the currentPost it leaves; what is a sequence of scopes
reset(currentPost, what) ==
  IF \E i \in 1..Len(what) : what[i] = "chat" THEN Null ELSE currentPost

\* mutant: serialize leaves currentPost out of the data
serializeNothing(currentPost) == [currentPost |-> Undefined]

\* serialize(): the data it returns
serialize(currentPost) == [currentPost |-> currentPost]

\* deserialize(data): the currentPost it sets
deserialize(data) == OrElse(data.currentPost, Null)

----------------------------------------------------------------------------
(* The record of the operation that completed last *)

Done(op, s, input, pre, calls, out) ==
  [op |-> op, session |-> s, input |-> input, pre |-> pre, calls |-> calls,
   error |-> out.error, ret |-> out.value]

Attached == DOMAIN slots

\* no outcome is pending: the caller may issue an operation
NoOp == Done("none", "A", <<>>, Undefined, <<>>, Return(Undefined))
Idle == last.op = "none"

\* an operation on agent s may start
Ready(s) == Idle /\ s \in Attached

\* mutant: the provider keeps one current post for all its agents
SetSlotOfAll(s, v) == [t \in DOMAIN slots \cup {s} |-> v]

SetSlot(s, v) == (s :> v) @@ slots

----------------------------------------------------------------------------
(* Operations of the hosting agent on the slice *)

\* attach(agent): agent.initializeState(WordPressBlogState, {})
attach(props) == WordPressBlogState(props)

Attach(s) ==
  /\ Idle
  /\ s \notin Attached
  /\ slots' = SetSlot(s, attach([currentPost |-> Undefined]))
  /\ last' = Done("attach", s, <<>>, Undefined, <<>>, Return(Undefined))
  /\ UNCHANGED tagStore

ResetScopes == {"chat", "memory"}
ResetWhats == UNION {[1..k -> ResetScopes] : k \in 0..2}

Reset(s) ==
  /\ Ready(s)
  /\ \E what \in ResetWhats :
       /\ slots' = SetSlot(s, reset(slots[s], what))
       /\ last' = Done("reset", s, what, slots[s], <<>>, Return(Undefined))
  /\ UNCHANGED tagStore

\* the agent takes a checkpoint of the slice
Serialize(s) ==
  /\ Ready(s)
  /\ last' = Done("serialize", s, <<>>, slots[s], <<>>, Return(serialize(slots[s])))
  /\ UNCHANGED <<slots, tagStore>>

\* data a checkpoint file may hold: currentPost is of any type, or absent
CheckpointData == [currentPost : {Null, Undefined, False} \cup BackendPosts]

\* The agent restores a slice from the checkpoint it has just taken, of
\* this slice or of another agent's.  The input records the data and the
\* currentPost the checkpoint was taken of.
Restore(s) ==
  /\ s \in Attached
  /\ last.op = "serialize"
  /\ slots' = SetSlot(s, deserialize(last.ret))
  /\ last' = Done("restore", s, [data |-> last.ret, of |-> last.pre], slots[s],
                  <<>>, Return(Undefined))
  /\ UNCHANGED tagStore

\* the agent restores the slice from stored data
Deserialize(s) ==
  /\ Ready(s)
  /\ \E data \in CheckpointData :
       /\ slots' = SetSlot(s, deserialize(data))
       /\ last' = Done("deserialize", s, data, slots[s], <<>>, Return(Undefined))
  /\ UNCHANGED tagStore

----------------------------------------------------------------------------
(* Provider operations that do not reach the backend *)

\* the clock read by a translation
Times == {2}

\* mutant: getCurrentPost throws when there is no current post
getCurrentPostRefusesEmpty(currentPost, now) ==
  IF ~Truthy(currentPost) THEN Throw(Error("NoPostSelected", <<>>))
  ELSE WPPostToBlogPost(currentPost, now)

getCurrentPost(currentPost, now) ==
  IF ~Truthy(currentPost) THEN Return(Null)
  ELSE WPPostToBlogPost(currentPost, now)

GetCurrentPost(s) ==
  /\ Ready(s)
  /\ \E now \in Times :
       last' = Done("getCurrentPost", s, <<>>, slots[s], <<>>,
                    getCurrentPost(slots[s], now))
  /\ UNCHANGED <<slots, tagStore>>

\* mutant: clearCurrentPost leaves the current post as it found it
clearCurrentPostKeeps(currentPost) == currentPost

\* the currentPost clearCurrentPost leaves
clearCurrentPost(currentPost) == Null

ClearCurrentPost(s) ==
  /\ Ready(s)
  /\ slots' = SetSlot(s, clearCurrentPost(slots[s]))
  /\ last' = Done("clearCurrentPost", s, <<>>, slots[s], <<>>, Return(Undefined))
  /\ UNCHANGED tagStore

----------------------------------------------------------------------------
(* The WordPress backend, as the provider sees it through its client *)

BackendError == Error("BackendError", <<>>)

\* one call to the backend: the resource, the method, the argument and
\* what came back
Call(res, method, arg, answer) ==
  [res |-> res, method |-> method, arg |-> arg, answer |-> answer]

\* what post().create and post().update answer: an error, nothing, a post
PostAnswers == {Throw(BackendError), Return(Null)} \cup {Return(p) : p \in BackendPosts}

\* what post().find(id) answers: an error, nothing, or a list of at most
\* one entry, which may be null
FindByIdAnswers ==
  {Throw(BackendError), Return(Undefined), Return(Array(<<>>)), Return(Array(<<Null>>))}
    \cup {Return(Array(<<p>>)) : p \in BackendPosts}

\* what post().find(query) answers: an error or a list of entries
ListedPosts == {Null} \cup {p \in BackendPosts : p.id <= 1}
FindAnswers ==
  {Throw(BackendError)} \cup {Return(Array(l)) : l \in UNION {[1..k -> ListedPosts] : k \in 0..2}}

\* tags and their names
TagNames == {"Tech", "tech", "New"}

toLowerCase(name) ==
  CASE name = "Tech" -> "tech"
    [] name = "New" -> "new"
    [] OTHER -> name

InitialTags == <<[id |-> 1, name |-> "Tech"]>>

\* postTag().find({search}): the stored tags whose name holds the search
\* term, whatever the case
SearchTags(store, search) ==
  SelectSeq(store, LAMBDA tag : toLowerCase(tag.name) = toLowerCase(search))

\* what may go wrong with the backend while one tag name is handled
TagFaults == {"none", "findThrows", "createThrows", "createNothing"}

----------------------------------------------------------------------------
(* getOrCreateTagIds *)

\* mutant: the names are compared as they are written
existingTagExact(existingTags, tagName) ==
  LET hits == SelectSeq(existingTags, LAMBDA tag : tag.name = tagName)
  IN  IF hits = <<>> THEN Undefined ELSE Head(hits)

\* existingTags.find(tag => tag?.name?.toLowerCase() === tagName.toLowerCase())
existingTag(existingTags, tagName) ==
  LET hits == SelectSeq(existingTags,
                        LAMBDA tag : toLowerCase(tag.name) = toLowerCase(tagName))
  IN  IF hits = <<>> THEN Undefined ELSE Head(hits)

\* mutant: a lookup that throws is followed by the creation of the tag
handleTagCreatesAfterFailedFind(acc, tagName, fault) ==
  LET newTag == [id |-> Len(acc.store) + 1, name |-> tagName]
      found == SearchTags(acc.store, tagName)
      hit == existingTag(found, tagName)
  IN  IF fault = "findThrows"
      THEN [tagIds |-> acc.tagIds \o <<newTag.id>>,
            calls |-> acc.calls
                        \o <<Call("postTag", "find", tagName, Throw(BackendError)),
                             Call("postTag", "create", [name |-> tagName], Return(newTag))>>,
            store |-> acc.store \o <<newTag>>]
      ELSE IF Truthy(hit)
      THEN [acc EXCEPT !.calls = @ \o <<Call("postTag", "find", tagName, Return(found))>>,
                       !.tagIds = @ \o <<hit.id>>]
      ELSE [acc EXCEPT !.calls = @ \o <<Call("postTag", "find", tagName, Return(found)),
                                        Call("postTag", "create", [name |-> tagName],
                                             Throw(BackendError))>>]

\* One pass of the loop body, from the state acc = [tagIds, calls, store]
\* of the loop, for tagName under the fault the backend shows.
handleTag(acc, tagName, fault) ==
  LET found == SearchTags(acc.store, tagName)
      hit == existingTag(found, tagName)
      newTag == [id |-> Len(acc.store) + 1, name |-> tagName]
      create(answer) == Call("postTag", "create", [name |-> tagName], answer)
  IN  IF fault = "findThrows"
      THEN [acc EXCEPT !.calls = @ \o <<Call("postTag", "find", tagName, Throw(BackendError))>>]
      ELSE LET looked == acc.calls \o <<Call("postTag", "find", tagName, Return(found))>>
           IN  IF Truthy(hit)
               THEN [acc EXCEPT !.calls = looked, !.tagIds = @ \o <<hit.id>>]
               ELSE IF fault = "createThrows"
               THEN [acc EXCEPT !.calls = looked \o <<create(Throw(BackendError))>>]
               ELSE IF fault = "createNothing"
               THEN [acc EXCEPT !.calls = looked \o <<create(Return(Undefined))>>]
               ELSE [tagIds |-> acc.tagIds \o <<newTag.id>>,
                     calls |-> looked \o <<create(Return(newTag))>>,
                     store |-> acc.store \o <<newTag>>]

\* mutant: the loop ends at the first name that yields no id
RECURSIVE tagLoopAborts(_, _, _)
tagLoopAborts(acc, tagNames, faults) ==
  IF tagNames = <<>> THEN acc
  ELSE LET next == handleTag(acc, Head(tagNames), Head(faults))
       IN  IF next.tagIds = acc.tagIds THEN next
           ELSE tagLoopAborts(next, Tail(tagNames), Tail(faults))

RECURSIVE tagLoop(_, _, _)
tagLoop(acc, tagNames, faults) ==
  IF tagNames = <<>> THEN acc
  ELSE tagLoop(handleTag(acc, Head(tagNames), Head(faults)), Tail(tagNames), Tail(faults))

\* getOrCreateTagIds(tagNames) on the tag store, faults[i] being the fault
\* met at tagNames[i]: the ids returned, the calls issued, the store left
getOrCreateTagIds(tagNames, store, faults) ==
  tagLoop([tagIds |-> <<>>, calls |-> <<>>, store |-> store], tagNames, faults)

----------------------------------------------------------------------------
(* Provider operations that reach the backend *)

\* marked(content)
marked(content) ==
  CASE content = "" -> ""
    [] content = "# Hi" -> "<h1>Hi</h1>"

\* truthiness of an optional string
TruthyStr(o) == o /= None /\ o[1] /= ""

\* truthiness of an optional string held as characters
TruthyChars(o) == o /= None /\ o[1] /= <<>>

\* feature_image && ! feature_image.id
badFeatureImage(feature_image) ==
  feature_image /= None /\ ~TruthyChars(feature_image[1].id)

FeatureImageError == Error("FeatureImage", <<>>)

\* What a handler has done when it ends: the currentPost it leaves, the tag
\* store it leaves, the calls it issued and its outcome.
End(currentPost, store, calls, out) ==
  [currentPost |-> currentPost, store |-> store, calls |-> calls, out |-> out]

\* the inputs of Spec
FeatureImages ==
  {None} \cup {Some([id |-> i]) : i \in {None, Some(<<>>), Some(<<"7">>), Some(<<"x">>)}}
TagLists == {<<>>} \cup {<<n>> : n \in TagNames} \cup {<<"tech", "New">>}
CreateDatas ==
  [title : {"Post"},
   content : {None, Some("# Hi")},
   tags : {None} \cup {Some(l) : l \in TagLists},
   feature_image : FeatureImages]

\* the request createPost sends to post().create
createRequest(title, html, tagIds, feature_image) ==
  [title |-> [rendered |-> title],
   content |-> [rendered |-> html, protected |-> FALSE],
   status |-> "draft",
   tags |-> tagIds,
   feature_image |-> feature_image]

\* mutant: createPost does not store the post the backend returned
createdPostNotStored(currentPost, result) == currentPost

\* the currentPost createPost leaves, given what the backend answered
createdPost(currentPost, result) == IF Truthy(result) THEN result ELSE currentPost

\* createPost(data, agent), the agent's currentPost and the tag store
\* given, under the backend's answers: faults for the tags, answer of
\* post().create.  createWhenEmpty is the handler past its first check.
createWhenEmpty(currentPost, store, data, faults, answer, now) ==
  IF badFeatureImage(data.feature_image)
  THEN End(currentPost, store, <<>>, Throw(FeatureImageError))
  ELSE
    LET content == IF data.content = None THEN "" ELSE data.content[1]
        tags == IF data.tags = None THEN <<>> ELSE data.tags[1]
        html == marked(content)
        resolved == IF Len(tags) > 0 THEN getOrCreateTagIds(tags, store, faults)
                    ELSE [tagIds |-> <<>>, calls |-> <<>>, store |-> store]
        request == createRequest(data.title, html, resolved.tagIds, data.feature_image)
        calls == resolved.calls \o <<Call("post", "create", request, answer)>>
    IN  IF answer.error /= NoError
        THEN End(currentPost, resolved.store, calls, Throw(answer.error))
        ELSE IF Truthy(answer.value)
        THEN End(createdPost(currentPost, answer.value), resolved.store, calls,
                 WPPostToBlogPost(answer.value, now))
        ELSE End(createdPost(currentPost, answer.value), resolved.store, calls,
                 Throw(Error("CreateFailed", <<>>)))

\* mutant: createPost without its check of the current post
createPostUnguarded(currentPost, store, data, faults, answer, now) ==
  createWhenEmpty(currentPost, store, data, faults, answer, now)

createPost(currentPost, store, data, faults, answer, now) ==
  IF Truthy(currentPost)
  THEN End(currentPost, store, <<>>, Throw(Error("AlreadySelected", <<>>)))
  ELSE createWhenEmpty(currentPost, store, data, faults, answer, now)

\* the faults drawn for a list of tag names: one for each name
FaultsFor(tags) == [1..Len(tags) -> TagFaults]

TagsOf(data) == IF data.tags = None THEN <<>> ELSE data.tags[1]

\* a handler's end becomes the next state
Finish(op, s, input, end) ==
  /\ Len(end.store) <= MaxTags
  /\ slots' = SetSlot(s, end.currentPost)
  /\ tagStore' = end.store
  /\ last' = Done(op, s, input, slots[s], end.calls, end.out)

\* the answer handed to a handler that may end before it asks the post
\* resource
NotAsked == Return(Undefined)

\* the handler has asked the post resource
AskedPost(end) == \E i \in 1..Len(end.calls) : end.calls[i].res = "post"

\* The answer of the post resource is drawn only in the runs that ask it.
CreatePost(s) ==
  /\ Ready(s)
  /\ \E data \in CreateDatas, now \in Times :
       \E faults \in FaultsFor(TagsOf(data)) :
         IF AskedPost(createPost(slots[s], tagStore, data, faults, NotAsked, now))
         THEN \E answer \in PostAnswers :
                Finish("createPost", s, data,
                       createPost(slots[s], tagStore, data, faults, answer, now))
         ELSE Finish("createPost", s, data,
                     createPost(slots[s], tagStore, data, faults, NotAsked, now))

----------------------------------------------------------------------------
(* updatePost *)

DomainStatuses == {"published", "scheduled", "draft", "pending", "private"}

\* mutant: the table sends "scheduled" to "publish"
statusMapToNativeMerged(status) ==
  CASE status = "published" -> Some("publish")
    [] status = "scheduled" -> Some("publish")
    [] status = "draft" -> Some("draft")
    [] status = "pending" -> Some("pending")
    [] status = "private" -> Some("private")
    [] OTHER -> None

\* statusMap[status]: None where the table has no such key
statusMapToNative(status) ==
  CASE status = "published" -> Some("publish")
    [] status = "scheduled" -> Some("future")
    [] status = "draft" -> Some("draft")
    [] status = "pending" -> Some("pending")
    [] status = "private" -> Some("private")
    [] OTHER -> None

AllUpdateDatas ==
  [title : {None, Some(""), Some("Post")},
   content : {None, Some(""), Some("# Hi")},
   tags : {None} \cup {Some(l) : l \in TagLists},
   feature_image : FeatureImages,
   status : {None, Some("")} \cup {Some(x) : x \in DomainStatuses \cup {"archived"}}]

\* the number of fields an update supplies
Supplied(d) ==
  Cardinality({f \in {"title", "content", "tags", "feature_image", "status"} : d[f] /= None})

FullUpdate ==
  [title |-> Some("Post"), content |-> Some("# Hi"), tags |-> Some(<<"New">>),
   feature_image |-> Some([id |-> Some(<<"7">>)]), status |-> Some("published")]

\* the updates of Spec: those supplying at most one field, and a full one
UpdateDatas == {d \in AllUpdateDatas : Supplied(d) <= 1} \cup {FullUpdate}

\* updateData as the handler fills it; a field left out is None
updateData(currentPost, data, tagIds) ==
  [id |-> currentPost.id,
   title |-> IF TruthyStr(data.title) THEN Some([rendered |-> data.title[1]]) ELSE None,
   content |-> IF TruthyStr(data.content)
               THEN Some([rendered |-> marked(data.content[1]), protected |-> FALSE])
               ELSE None,
   tags |-> IF data.tags /= None THEN Some(tagIds) ELSE None,
   featured_media |-> IF data.feature_image /= None
                      THEN Some(parseInt(data.feature_image[1].id[1]))
                      ELSE None,
   status |-> IF TruthyStr(data.status) THEN Some(statusMapToNative(data.status[1])) ELSE None]

\* the id post().update is addressed to
updateTarget(currentPost) == currentPost.id

\* mutant: updatePost does not store the post the backend returned
updatedPostNotStored(currentPost, result) == currentPost

\* mutant: updatePost stores whatever the backend returned
updatedPostAlways(currentPost, result) == result

\* the currentPost updatePost leaves, given what the backend answered
updatedPost(currentPost, result) == IF Truthy(result) THEN result ELSE currentPost

\* the tags of an update resolved: if (tags) ... await getOrCreateTagIds(tags)
updateTags(store, data, faults) ==
  IF data.tags /= None
  THEN getOrCreateTagIds(data.tags[1], store, faults)
  ELSE [tagIds |-> <<>>, calls |-> <<>>, store |-> store]

\* updatePost past its first check
updateWhenSelected(currentPost, store, data, faults, answer, now) ==
  LET resolved == updateTags(store, data, faults)
  IN  IF badFeatureImage(data.feature_image)
      THEN End(currentPost, resolved.store, resolved.calls, Throw(FeatureImageError))
      ELSE
        LET patch == updateData(currentPost, data, resolved.tagIds)
            calls == resolved.calls
                       \o <<Call("post", "update",
                                 [data |-> patch, id |-> updateTarget(currentPost)], answer)>>
        IN  IF answer.error /= NoError
            THEN End(currentPost, resolved.store, calls, Throw(answer.error))
            ELSE IF Truthy(answer.value)
            THEN End(updatedPost(currentPost, answer.value), resolved.store, calls,
                     WPPostToBlogPost(answer.value, now))
            ELSE End(updatedPost(currentPost, answer.value), resolved.store, calls,
                     Throw(Error("UpdateFailed", <<>>)))

\* mutant: updatePost resolves the tags before it checks the current post
updatePostChecksLate(currentPost, store, data, faults, answer, now) ==
  IF ~Truthy(currentPost)
  THEN End(currentPost, updateTags(store, data, faults).store,
           updateTags(store, data, faults).calls, Throw(Error("NoPostSelected", <<>>)))
  ELSE updateWhenSelected(currentPost, store, data, faults, answer, now)

updatePost(currentPost, store, data, faults, answer, now) ==
  IF ~Truthy(currentPost)
  THEN End(currentPost, store, <<>>, Throw(Error("NoPostSelected", <<>>)))
  ELSE updateWhenSelected(currentPost, store, data, faults, answer, now)

UpdatePost(s) ==
  /\ Ready(s)
  /\ \E data \in UpdateDatas, now \in Times :
       \E faults \in FaultsFor(TagsOf(data)) :
         IF AskedPost(updatePost(slots[s], tagStore, data, faults, NotAsked, now))
         THEN \E answer \in PostAnswers :
                Finish("updatePost", s, data,
                       updatePost(slots[s], tagStore, data, faults, answer, now))
         ELSE Finish("updatePost", s, data,
                     updatePost(slots[s], tagStore, data, faults, NotAsked, now))

----------------------------------------------------------------------------
(* selectPostById and getAllPosts *)

\* post?.[0] == null
noFirstPost(post) == ~Truthy(post) \/ post.items = <<>> \/ ~Truthy(post.items[1])

\* mutant: selectPostById stores the first entry before it has checked it
selectedPostUnchecked(currentPost, post) ==
  IF ~Truthy(post) \/ post.items = <<>> THEN currentPost ELSE post.items[1]

\* mutant: selectPostById leaves the post it found unstored
selectedPostNotStored(currentPost, post) == currentPost

\* mutant: selectPostById clears the current post when it finds nothing
selectedPostCleared(currentPost, post) ==
  IF noFirstPost(post) THEN Null ELSE post.items[1]

\* the currentPost selectPostById leaves, given what the backend answered
selectedPost(currentPost, post) ==
  IF noFirstPost(post) THEN currentPost ELSE post.items[1]

selectPostById(currentPost, store, id, answer, now) ==
  LET calls == <<Call("post", "find", parseInt(id), answer)>>
  IN  IF answer.error /= NoError
      THEN End(currentPost, store, calls, Throw(answer.error))
      ELSE IF noFirstPost(answer.value)
      THEN End(selectedPost(currentPost, answer.value), store, calls,
               Throw(Error("NotFound", id)))
      ELSE End(selectedPost(currentPost, answer.value), store, calls,
               WPPostToBlogPost(answer.value.items[1], now))

SelectPostById(s) ==
  /\ Ready(s)
  /\ \E id \in IdStrings, answer \in FindByIdAnswers, now \in Times :
       Finish("selectPostById", s, id,
              selectPostById(slots[s], tagStore, id, answer, now))

\* the statuses getAllPosts asks for
AllStatuses == <<"publish", "future", "draft", "pending", "private">>

\* mutant: the filter ends at the first entry that is null
RECURSIVE filterPostsUntilNull(_)
filterPostsUntilNull(posts) ==
  IF posts = <<>> \/ ~Truthy(Head(posts)) THEN <<>>
  ELSE <<Head(posts)>> \o filterPostsUntilNull(Tail(posts))

\* posts.filter(post => post)
RECURSIVE filterPosts(_)
filterPosts(posts) ==
  IF posts = <<>> THEN <<>>
  ELSE IF Truthy(Head(posts)) THEN <<Head(posts)>> \o filterPosts(Tail(posts))
  ELSE filterPosts(Tail(posts))

\* posts.map(WPPostToBlogPost): the first translation that throws ends it
RECURSIVE mapPosts(_, _)
mapPosts(posts, now) ==
  IF posts = <<>> THEN Return(<<>>)
  ELSE LET first == WPPostToBlogPost(Head(posts), now)
           rest == mapPosts(Tail(posts), now)
       IN  IF first.error /= NoError THEN first
           ELSE IF rest.error /= NoError THEN rest
           ELSE Return(<<first.value>> \o rest.value)

\* mutant: getAllPosts answers a backend failure with an empty list
getAllPostsSwallows(currentPost, store, answer, now) ==
  LET calls == <<Call("post", "find", [status |-> AllStatuses], answer)>>
  IN  IF answer.error /= NoError
      THEN End(currentPost, store, calls, Return(<<>>))
      ELSE End(currentPost, store, calls, mapPosts(filterPosts(answer.value.items), now))

getAllPosts(currentPost, store, answer, now) ==
  LET calls == <<Call("post", "find", [status |-> AllStatuses], answer)>>
  IN  IF answer.error /= NoError
      THEN End(currentPost, store, calls, Throw(answer.error))
      ELSE End(currentPost, store, calls, mapPosts(filterPosts(answer.value.items), now))

GetAllPosts(s) ==
  /\ Ready(s)
  /\ \E answer \in FindAnswers, now \in Times :
       Finish("getAllPosts", s, <<>>, getAllPosts(slots[s], tagStore, answer, now))

----------------------------------------------------------------------------

Init ==
  /\ slots = <<>>
  /\ tagStore = InitialTags
  /\ last = NoOp

\* the caller takes the outcome of the operation that has completed
Settle ==
  /\ ~Idle
  /\ last' = NoOp
  /\ UNCHANGED <<slots, tagStore>>

Next ==
  \/ Settle
  \/ \E s \in Sessions :
    \/ Attach(s)
    \/ Reset(s)
    \/ Serialize(s)
    \/ Restore(s)
    \/ Deserialize(s)
    \/ GetCurrentPost(s)
    \/ ClearCurrentPost(s)
    \/ CreatePost(s)
    \/ UpdatePost(s)
    \/ SelectPostById(s)
    \/ GetAllPosts(s)

Spec == Init /\ [][Next]_vars

----------------------------------------------------------------------------
(* Properties of the operation that has just completed *)

Completed(op) == last.op = op

\* the current post of the agent the completed operation was given
Slot == slots[last.session]

\* the call the completed operation issued last
LastCall == last.calls[Len(last.calls)]

\* the completed operation asked the post resource, which returned a value
PostReturned(method) ==
  /\ last.calls /= <<>>
  /\ LastCall.res = "post" /\ LastCall.method = method
  /\ LastCall.answer.error = NoError

\* ... and the value is a post
PostReturnedRecord(method) ==
  PostReturned(method) /\ Truthy(LastCall.answer.value)

Failed(kind) == last.error.kind = kind
Succeeded == last.error = NoError

\* C1: createPost on an agent whose current post is set throws the
\* "a post is currently selected" error and issues no backend call, to the
\* post resource or to the tag resource, whatever the data.
C1_CreateWhileSelected ==
  (Completed("createPost") /\ Truthy(last.pre))
    => /\ Failed("AlreadySelected")
       /\ last.calls = <<>>

C1_Witness ==
  /\ Completed("createPost") /\ Truthy(last.pre)
  /\ last.input.tags = Some(<<"New">>)
  /\ Failed("AlreadySelected")

\* C2: updatePost on an agent whose current post is null throws the "no
\* post is currently selected" error and issues no backend call, to the
\* post resource or to the tag resource, whatever the data.
C2_UpdateWhileEmpty ==
  (Completed("updatePost") /\ ~Truthy(last.pre))
    => /\ Failed("NoPostSelected")
       /\ last.calls = <<>>

C2_Witness ==
  /\ Completed("updatePost") /\ ~Truthy(last.pre)
  /\ last.input = FullUpdate
  /\ Failed("NoPostSelected")

\* C3: when createPost starts with no current post and post().create
\* returns a post, the request carried status "draft", the current post
\* is then exactly the post returned, and the agent has a current post.
C3_CreateStoresResult ==
  (Completed("createPost") /\ ~Truthy(last.pre) /\ PostReturnedRecord("create"))
    => /\ LastCall.arg.status = "draft"
       /\ Slot = LastCall.answer.value
       /\ Truthy(Slot)

C3_Witness ==
  /\ Completed("createPost") /\ ~Truthy(last.pre) /\ PostReturnedRecord("create")
  /\ last.input.tags = Some(<<"New">>)
  /\ Succeeded

\* C4: when updatePost starts with a current post and post().update returns
\* a post, the update was addressed to the id of the post that was current,
\* and the current post is then exactly the post returned.
C4_UpdateStoresResult ==
  (Completed("updatePost") /\ Truthy(last.pre) /\ PostReturnedRecord("update"))
    => /\ LastCall.arg.id = last.pre.id
       /\ LastCall.arg.data.id = last.pre.id
       /\ Slot = LastCall.answer.value
       /\ Truthy(Slot)

C4_Witness ==
  /\ Completed("updatePost") /\ Truthy(last.pre) /\ PostReturnedRecord("update")
  /\ Slot /= last.pre
  /\ Slot.id /= last.pre.id
  /\ Succeeded

\* the backend answered selectPostById with a post whose id is the integer
\* parsed from the id asked for
FoundMatching ==
  /\ Completed("selectPostById")
  /\ last.calls /= <<>> /\ LastCall.answer.error = NoError
  /\ ~noFirstPost(LastCall.answer.value)
  /\ parseInt(last.input) = Some(LastCall.answer.value.items[1].id)

FoundPost == LastCall.answer.value.items[1]

\* the id string is a decimal numeral: digits only, no leading zero
IsNumeral(id) ==
  /\ id /= <<>>
  /\ \A i \in 1..Len(id) : id[i] \in Digits
  /\ id[1] /= "0"

\* the post has the four fields a translation requires
Translatable(p) ==
  p.id /= 0 /\ Truthy(p.title) /\ Truthy(p.content) /\ p.status /= ""

\* a matching post: it has id, title, content and status, and its id is
\* the integer parsed from the id asked for
FoundMatchingPost == FoundMatching /\ Translatable(FoundPost)

\* C5 as claimed: for every id, whenever the backend returns a matching
\* post, selectPostById stores it and returns a post whose id equals the id
\* asked for.
C5_AsClaimed ==
  FoundMatchingPost
    => /\ Slot = FoundPost
       /\ Truthy(Slot)
       /\ Succeeded
       /\ last.ret.id = last.input

\* C5, amended: whenever the backend returns a matching post, from either
\* state, selectPostById stores it as the current post and returns a post
\* whose id is the decimal form of the parsed integer; that id equals the
\* id asked for exactly when the id asked for is a decimal numeral without
\* leading zero or trailing characters.
C5_SelectStoresFound ==
  FoundMatchingPost
    => /\ Slot = FoundPost
       /\ Truthy(Slot)
       /\ Succeeded
       /\ last.ret.id = toString(FoundPost.id)
       /\ (last.ret.id = last.input) <=> IsNumeral(last.input)

C5_Witness ==
  /\ FoundMatchingPost /\ Succeeded
  /\ Truthy(last.pre) /\ last.pre /= Slot
  /\ last.input = <<"0", "1">>
  /\ last.ret.id = <<"1">>

\* C6: when the backend answers selectPostById with no list, an empty list
\* or a list whose first entry is null, the call throws the "not found"
\* error naming the id asked for and leaves the current post as it was.
C6_SelectNotFound ==
  (Completed("selectPostById") /\ last.calls /= <<>>
     /\ LastCall.answer.error = NoError /\ noFirstPost(LastCall.answer.value))
    => /\ last.error = Error("NotFound", last.input)
       /\ Slot = last.pre

C6_Witness ==
  /\ Completed("selectPostById")
  /\ LastCall.answer = Return(Array(<<Null>>))
  /\ Truthy(last.pre)
  /\ last.error = Error("NotFound", <<"1", "x">>)

\* C7: clearCurrentPost never throws and leaves the current post null,
\* whatever it was; a second clearCurrentPost changes nothing.
C7_ClearEmpties ==
  Completed("clearCurrentPost")
    => /\ Succeeded
       /\ Slot = Null
       /\ clearCurrentPost(Slot) = Slot

C7_Witness == Completed("clearCurrentPost") /\ Truthy(last.pre) /\ Slot = Null

\* the scopes a reset was given
Scopes(what) == {what[i] : i \in 1..Len(what)}

\* C8: reset(what) leaves the current post null when what holds "chat",
\* and leaves it exactly as it was when what does not.
C8_ResetOnChat ==
  Completed("reset")
    => IF "chat" \in Scopes(last.input) THEN Slot = Null ELSE Slot = last.pre

C8_Witness ==
  /\ Completed("reset") /\ Truthy(last.pre)
  /\ last.input = <<"memory", "chat">>
  /\ Slot = Null

\* C9: serialize leaves the current post as it was, and deserialize of the
\* data serialize returned, applied to any slice, sets the current post to
\* the one that was serialized: null to null, a post to the same post.
C9_SerializeRoundTrip ==
  /\ Completed("serialize") => Slot = last.pre
  /\ Completed("restore") => Slot = last.input.of

C9_Witness ==
  /\ Completed("restore")
  /\ Truthy(last.input.of) /\ Slot = last.input.of
  /\ last.pre /= last.input.of

\* C10: right after attach the current post of the agent is null:
\* getCurrentPost returns null, updatePost is refused whatever the data, and
\* createPost is not refused for a post being selected.
C10_AttachEmpty ==
  Completed("attach")
    => /\ Slot = Null
       /\ \A now \in Times : getCurrentPost(Slot, now) = Return(Null)
       /\ \A data \in UpdateDatas, now \in Times :
            updatePost(Slot, tagStore, data, [i \in 1..Len(TagsOf(data)) |-> "none"],
                       NotAsked, now).out.error.kind = "NoPostSelected"
       /\ \A data \in CreateDatas, now \in Times :
            createPost(Slot, tagStore, data, [i \in 1..Len(TagsOf(data)) |-> "none"],
                       NotAsked, now).out.error.kind /= "AlreadySelected"

C10_Witness == Completed("attach") /\ last.session = "B" /\ "A" \in Attached

----------------------------------------------------------------------------
(* Properties of the steps of Spec *)

\* the step is an operation on agent s that empties its slice: a clear, a
\* reset holding "chat", or a deserialize of data without a current post
EmptiedBy(s) ==
  /\ last'.session = s
  /\ \/ last'.op = "clearCurrentPost"
     \/ last'.op = "reset" /\ "chat" \in Scopes(last'.input)
     \/ last'.op = "deserialize" /\ ~Truthy(last'.input.currentPost)
     \/ last'.op = "restore" /\ ~Truthy(last'.input.data.currentPost)

\* the step is an operation on agent s that may fill its slice
FilledBy(s) ==
  /\ last'.session = s
  /\ last'.op \in {"createPost", "selectPostById", "deserialize", "restore"}

\* the step is the operation op on agent s
Ran(op, s) == last'.op = op /\ last'.session = s

MutualExclusionStep(s) ==
  /\ (Ran("createPost", s) /\ last'.error = NoError) => Truthy(slots'[s])
  /\ (Ran("createPost", s) /\ Truthy(slots[s]))
       => last'.error.kind = "AlreadySelected" /\ slots'[s] = slots[s]
  /\ (Ran("updatePost", s) /\ last'.error.kind /= "NoPostSelected")
       => Truthy(slots[s]) /\ Truthy(slots'[s])
  /\ (s \in Attached /\ Truthy(slots[s]) /\ ~Truthy(slots'[s])) => EmptiedBy(s)
  /\ (s \in Attached /\ ~Truthy(slots[s]) /\ Truthy(slots'[s])) => FilledBy(s)

\* C11: in every step of every agent, a createPost that succeeds leaves a
\* current post; while the agent has a current post every createPost is
\* refused and changes nothing; the current post stops being set only by a
\* clear, a reset holding "chat" or a deserialize of data without a post;
\* an updatePost gets past its first check only while the current post is
\* set, which it becomes only by createPost, selectPostById or deserialize.
C11_CreateUpdateExclusive ==
  [][\A s \in Sessions : MutualExclusionStep(s)]_vars

C11_Witness ==
  /\ Completed("createPost") /\ Failed("AlreadySelected")
  /\ Slot = last.pre /\ Truthy(Slot)
  /\ \E t \in Attached : t /= last.session /\ slots[t] = Null

----------------------------------------------------------------------------
(* SpecTranslate: the translators on their own.  A native post is given   *)
(* and translated, or a status is given and the two status tables are     *)
(* applied to it in turn.  `last` holds what was given as its input and   *)
(* what the translators made of it as its return value: for a status, the *)
(* values the tables produced so far, each one an optional string.        *)

\* the statuses given: those of each table and one the table does not hold
GivenStatuses ==
  [kind : {"domain"}, status : DomainStatuses \cup {"archived"}]
    \cup [kind : {"native"}, status : NativeStatuses \cup {"trash"}]

Given(op, input) == Done(op, "A", input, Undefined, <<>>, Return(<<>>))

TranslateInit ==
  /\ slots = <<>>
  /\ tagStore = InitialTags
  /\ \/ \E post \in WPPosts : last = Given("WPPost", post)
     \/ \E given \in GivenStatuses : last = Given("status", given)

\* the clock read by a translation of SpecTranslate
TranslateTimes == {2, 3}

\* WPPostToBlogPost(post) of the post given
Translate ==
  /\ last.op = "WPPost"
  /\ \E now \in TranslateTimes :
       last' = Done("WPPostToBlogPost", "A", last.input, Undefined, <<>>,
                    WPPostToBlogPost(last.input, now))
  /\ UNCHANGED <<slots, tagStore>>

\* the status the next table is applied to
CurrentStatus ==
  IF last.ret = <<>> THEN Some(last.input.status) ELSE last.ret[Len(last.ret)]

\* the next value is a domain status: the given one, or one toDomain made
HoldsDomainStatus ==
  \/ last.op = "status" /\ last.input.kind = "domain"
  \/ last.op = "toDomain"

HoldsNativeStatus ==
  \/ last.op = "status" /\ last.input.kind = "native"
  \/ last.op = "toNative"

\* updatePost's statusMap[status] of the current status
ToNative ==
  /\ HoldsDomainStatus
  /\ Len(last.ret) < MaxChain
  /\ CurrentStatus /= None
  /\ last' = Done("toNative", "A", last.input, Undefined, <<>>,
                  Return(last.ret \o <<statusMapToNative(CurrentStatus[1])>>))
  /\ UNCHANGED <<slots, tagStore>>

\* WPPostToBlogPost's statusMap[status] ?? "draft" of the current status
ToDomain ==
  /\ HoldsNativeStatus
  /\ Len(last.ret) < MaxChain
  /\ CurrentStatus /= None
  /\ last' = Done("toDomain", "A", last.input, Undefined, <<>>,
                  Return(last.ret \o <<Some(statusMapToDomain(CurrentStatus[1]))>>))
  /\ UNCHANGED <<slots, tagStore>>

TranslateNext == Translate \/ ToNative \/ ToDomain

SpecTranslate == TranslateInit /\ [][TranslateNext]_vars

\* the table of the native statuses as it is claimed
ClaimedDomain(status) ==
  IF status = "publish" THEN "published"
  ELSE IF status = "future" THEN "scheduled"
  ELSE IF status \in {"draft", "pending", "private"} THEN status
  ELSE "draft"

\* the status a table was applied to in the step that completed
PreviousStatus ==
  IF Len(last.ret) = 1 THEN Some(last.input.status) ELSE last.ret[Len(last.ret) - 1]

\* C12: toDomain sends publish to published, future to scheduled, draft,
\* pending and private to themselves and every other native status to
\* draft; a post with such a status is translated without error.
C12_ToDomainTable ==
  /\ Completed("toDomain")
       => CurrentStatus = Some(ClaimedDomain(PreviousStatus[1]))
  /\ (Completed("WPPostToBlogPost") /\ Translatable(last.input))
       => /\ Succeeded
          /\ last.ret.status = ClaimedDomain(last.input.status)

C12_Witness ==
  /\ Completed("WPPostToBlogPost") /\ Translatable(last.input)
  /\ last.input.status = "trash"
  /\ Succeeded /\ last.ret.status = "draft"

\* a status was given and the tables were applied n times
Chain(kind, n) ==
  /\ last.op \in {"toNative", "toDomain"}
  /\ last.input.kind = kind
  /\ Len(last.ret) = n

\* C13: from each of the five domain statuses s, toDomain(toNative(s)) is s
\* and toNative(toDomain(toNative(s))) is toNative(s), a native status;
\* from each of the five native statuses n, toNative(toDomain(n)) is n and
\* toDomain(n) is a domain status: each table is the inverse of the other.
C13_StatusRoundTrip ==
  /\ (Chain("domain", 1) /\ last.input.status \in DomainStatuses)
       => last.ret[1] /= None /\ last.ret[1][1] \in NativeStatuses
  /\ (Chain("domain", 2) /\ last.input.status \in DomainStatuses)
       => last.ret[2] = Some(last.input.status)
  /\ (Chain("domain", 3) /\ last.input.status \in DomainStatuses)
       => last.ret[3] = last.ret[1]
  /\ (Chain("native", 1) /\ last.input.status \in NativeStatuses)
       => last.ret[1][1] \in DomainStatuses
  /\ (Chain("native", 2) /\ last.input.status \in NativeStatuses)
       => last.ret[2] = Some(last.input.status)

C13_Witness ==
  /\ Chain("domain", 3)
  /\ last.input.status = "scheduled"
  /\ last.ret = <<Some("future"), Some("scheduled"), Some("future")>>

\* the fields a translation requires, in the order it checks them
RequiredFields == <<"id", "title", "content", "status">>

Absent(p, field) ==
  CASE field = "id" -> p.id = 0
    [] field = "title" -> ~Truthy(p.title)
    [] field = "content" -> ~Truthy(p.content)
    [] field = "status" -> p.status = ""

\* C15: the translation of a post lacking id, title, content or status
\* fails with the error naming the first of them, in this order, that the
\* post lacks; the translation of a post having all four succeeds.
C15_MissingFieldNamed ==
  Completed("WPPostToBlogPost")
    => /\ \A i \in 1..4 :
            (/\ Absent(last.input, RequiredFields[i])
             /\ \A j \in 1..(i - 1) : ~Absent(last.input, RequiredFields[j]))
              => last.error = Error("MissingField", <<RequiredFields[i]>>)
       /\ (\A i \in 1..4 : ~Absent(last.input, RequiredFields[i])) => Succeeded

C15_Witness ==
  /\ Completed("WPPostToBlogPost")
  /\ last.input.id /= 0
  /\ Absent(last.input, "title") /\ Absent(last.input, "status")
  /\ last.error = Error("MissingField", <<"title">>)

\* the completed operation issued a call to the post resource
CalledPost == \E i \in 1..Len(last.calls) : last.calls[i].res = "post"

\* C14: an updatePost on a current post, given a status that is none of the
\* five domain statuses, fails and sends no update to the backend.
C14_UnknownStatusFails ==
  (/\ Completed("updatePost") /\ Truthy(last.pre)
   /\ TruthyStr(last.input.status)
   /\ last.input.status[1] \notin DomainStatuses)
    => /\ ~Succeeded
       /\ ~CalledPost

----------------------------------------------------------------------------
(* SpecTags: the tag resolver on its own.  A list of names is given, with  *)
(* the fault the backend shows at each name and the tags the backend       *)
(* holds, and getOrCreateTagIds resolves it.  `last` then holds the names  *)
(* and faults as its input, the tags the backend held before the call as   *)
(* pre, the calls issued and the ids returned.                             *)

TagNameLists == UNION {[1..k -> TagNames] : k \in 0..MaxTagNames}

\* the tags the backend may hold when the call starts
TagStores == {<<>>, InitialTags}

TagsInit ==
  /\ slots = <<>>
  /\ tagStore \in TagStores
  /\ \E tagNames \in TagNameLists :
       \E faults \in FaultsFor(tagNames) :
         last = Given("tagNames", [tagNames |-> tagNames, faults |-> faults])

\* getOrCreateTagIds(tagNames) of the names given
Resolve ==
  /\ last.op = "tagNames"
  /\ LET resolved == getOrCreateTagIds(last.input.tagNames, tagStore, last.input.faults)
     IN  /\ tagStore' = resolved.store
         /\ last' = Done("getOrCreateTagIds", "A", last.input, Array(tagStore),
                         resolved.calls, Return(resolved.tagIds))
  /\ UNCHANGED slots

TagsNext == Resolve

SpecTags == TagsInit /\ [][TagsNext]_vars

\* call i of the completed operation is a postTag().create
IsCreate(i) == last.calls[i].res = "postTag" /\ last.calls[i].method = "create"

\* ... which returned a tag
Created(i) ==
  /\ IsCreate(i)
  /\ last.calls[i].answer.error = NoError
  /\ Truthy(last.calls[i].answer.value)

\* call i is a postTag().find of name which returned
LookedUp(i, name) ==
  /\ last.calls[i].res = "postTag" /\ last.calls[i].method = "find"
  /\ last.calls[i].arg = name
  /\ last.calls[i].answer.error = NoError

SameName(a, b) == toLowerCase(a) = toLowerCase(b)

\* no two tags of the store have names that differ by case only
CaseDistinct(store) ==
  \A i, j \in 1..Len(store) : (i /= j) => ~SameName(store[i].name, store[j].name)

\* C16: in one call of getOrCreateTagIds every create directly follows a
\* lookup of the same name that returned; no create is issued for a name
\* that equals, case aside, the name of a tag the backend held or of a tag
\* created earlier in the call; the tags held after the call have names
\* that are distinct, case aside.
C16_NoCaseVariantCreated ==
  Completed("getOrCreateTagIds")
    => /\ \A i \in 1..Len(last.calls) :
            IsCreate(i)
              => /\ i > 1 /\ LookedUp(i - 1, last.calls[i].arg.name)
                 /\ \A k \in 1..Len(last.pre.items) :
                      ~SameName(last.pre.items[k].name, last.calls[i].arg.name)
                 /\ \A j \in 1..(i - 1) :
                      Created(j) => ~SameName(last.calls[j].arg.name, last.calls[i].arg.name)
       /\ CaseDistinct(tagStore)

NoFaults == \A i \in 1..Len(last.input.faults) : last.input.faults[i] = "none"

C16_Witness ==
  /\ Completed("getOrCreateTagIds") /\ NoFaults
  /\ last.pre = Array(<<>>)
  /\ last.input.tagNames = <<"New", "tech", "Tech">>
  /\ Cardinality({i \in 1..Len(last.calls) : Created(i)}) = 2
  /\ last.ret = <<1, 2, 2>>

\* C17: getOrCreateTagIds of "Tech", "tech", "New", when the backend holds
\* "Tech" and shows no fault, returns no id twice: the id of "Tech" once
\* and the id of the one tag it created, "New".
C17_NoDuplicateIds ==
  (/\ Completed("getOrCreateTagIds") /\ NoFaults
   /\ last.pre = Array(InitialTags)
   /\ last.input.tagNames = <<"Tech", "tech", "New">>)
    => /\ \A i, j \in 1..Len(last.ret) : (i /= j) => last.ret[i] /= last.ret[j]
       /\ \E i \in 1..Len(last.ret) : last.ret[i] = InitialTags[1].id
       /\ Cardinality({i \in 1..Len(last.calls) : Created(i)}) = 1

\* the completed createPost or updatePost has resolved the tags it was
\* given and has not then refused the feature image
TagsResolved ==
  /\ ~Failed("FeatureImage")
  /\ \/ Completed("createPost") /\ ~Truthy(last.pre) /\ Len(TagsOf(last.input)) > 0
     \/ Completed("updatePost") /\ Truthy(last.pre) /\ last.input.tags /= None

\* the calls to the tag resource, and the names it was asked to find
TagCalls == SelectSeq(last.calls, LAMBDA c : c.res = "postTag")
FindCalls == SelectSeq(last.calls, LAMBDA c : c.res = "postTag" /\ c.method = "find")

\* the ids the answers of the tag resource yield: the id of the tag of the
\* same name, case aside, that a find returned, and the id of the tag a
\* create returned; a call that threw or returned nothing yields none
RECURSIVE IdsAnswered(_)
IdsAnswered(calls) ==
  IF calls = <<>> THEN <<>>
  ELSE
    LET c == Head(calls)
        same == IF c.method = "find" /\ c.answer.error = NoError
                THEN SelectSeq(c.answer.value, LAMBDA tag : SameName(tag.name, c.arg))
                ELSE <<>>
    IN  (IF c.answer.error /= NoError THEN <<>>
         ELSE IF c.method = "find" THEN (IF same = <<>> THEN <<>> ELSE <<Head(same).id>>)
         ELSE IF Truthy(c.answer.value) THEN <<c.answer.value.id>>
         ELSE <<>>)
        \o IdsAnswered(Tail(calls))

\* the tag ids the completed operation sent to the post resource
SentTags ==
  IF Completed("createPost") THEN LastCall.arg.tags ELSE LastCall.arg.data.tags[1]

\* C18: a createPost or updatePost that resolves tags looks up every name
\* it was given, in order, whatever fails on the way; the failures of the
\* tag resource do not fail the operation; it then calls the post resource
\* with the ids the tag resource answered, a name whose lookup or creation
\* threw or returned nothing contributing none.
C18_TagFailureRecovered ==
  TagsResolved
    => /\ Len(FindCalls) = Len(TagsOf(last.input))
       /\ \A k \in 1..Len(FindCalls) : FindCalls[k].arg = TagsOf(last.input)[k]
       /\ LastCall.res = "post"
       /\ Len(TagCalls) = Len(last.calls) - 1
       /\ SentTags = IdsAnswered(TagCalls)
       /\ Failed("BackendError") => LastCall.answer.error = BackendError

C18_Witness ==
  /\ Completed("createPost") /\ TagsResolved
  /\ last.input.tags = Some(<<"tech", "New">>)
  /\ last.calls[1].answer = Throw(BackendError)
  /\ SentTags = <<2>>
  /\ Succeeded

\* a string of digits
AllDigits(str) == str /= <<>> /\ \A i \in 1..Len(str) : str[i] \in Digits

\* a feature image was given and its id is missing or is not a number
NonNumericImage(feature_image) ==
  /\ feature_image /= None
  /\ \/ feature_image[1].id = None
     \/ ~AllDigits(feature_image[1].id[1])

\* C19: createPost on an agent without a current post, given a feature
\* image whose id is missing or not a number, throws the feature image
\* error, issues no backend call and leaves the agent without a current
\* post.
C19_CreateRejectsNonNumericImage ==
  (/\ Completed("createPost") /\ ~Truthy(last.pre)
   /\ NonNumericImage(last.input.feature_image))
    => /\ last.error = FeatureImageError
       /\ last.calls = <<>>
       /\ Slot = Null

\* C20: updatePost on an agent with a current post, given a feature image
\* whose id is missing or not a number, throws the feature image error,
\* sends no update to the post resource and leaves the current post as it
\* was.
C20_UpdateRejectsNonNumericImage ==
  (/\ Completed("updatePost") /\ Truthy(last.pre)
   /\ NonNumericImage(last.input.feature_image))
    => /\ last.error = FeatureImageError
       /\ ~CalledPost
       /\ Slot = last.pre

\* the completed updatePost sent a patch to post().update
PatchSent ==
  /\ Completed("updatePost") /\ Truthy(last.pre)
  /\ last.calls /= <<>>
  /\ LastCall.res = "post" /\ LastCall.method = "update"

Patch == LastCall.arg.data

\* C21: the patch updatePost sends holds the id of the current post and,
\* of title, content, tags, featured media and status, exactly those the
\* caller supplied: a field is in the patch if and only if the data given
\* to updatePost holds it.
C21_PatchHoldsSuppliedFields ==
  PatchSent
    => /\ Patch.id = last.pre.id
       /\ (Patch.title /= None) <=> (last.input.title /= None)
       /\ (Patch.content /= None) <=> (last.input.content /= None)
       /\ (Patch.tags /= None) <=> (last.input.tags /= None)
       /\ (Patch.featured_media /= None) <=> (last.input.feature_image /= None)
       /\ (Patch.status /= None) <=> (last.input.status /= None)

\* the backend answered the completed getAllPosts with a list
Listed ==
  /\ Completed("getAllPosts")
  /\ last.calls /= <<>> /\ LastCall.answer.error = NoError

\* the entries of that list that are not null, in order
ListedEntries == SelectSeq(LastCall.answer.value.items, LAMBDA p : Truthy(p))

C23_GetCurrentPostReadsSlot ==
  Completed("getCurrentPost")
    => /\ last.calls = <<>>
       /\ Slot = last.pre
       /\ ~Truthy(last.pre) => (Succeeded /\ last.ret = Null)
       /\ Truthy(last.pre)
            => \E now \in Times :
                 /\ last.error = WPPostToBlogPost(last.pre, now).error
                 /\ last.ret = WPPostToBlogPost(last.pre, now).value

C23_Witness ==
  /\ Completed("getCurrentPost")
  /\ Truthy(last.pre) /\ ~Translatable(last.pre)
  /\ Failed("MissingField")
  /\ Slot = last.pre

\* C24: when post().create returns nothing, createPost throws the "failed
\* to create" error and the agent still has no current post; when
\* post().update returns nothing, updatePost throws the "failed to update"
\* error and the current post is the one it was.
C24_EmptyResultFails ==
  /\ (Completed("createPost") /\ PostReturned("create") /\ ~Truthy(LastCall.answer.value))
       => /\ last.error = Error("CreateFailed", <<>>)
          /\ Slot = last.pre /\ ~Truthy(Slot)
  /\ (Completed("updatePost") /\ PostReturned("update") /\ ~Truthy(LastCall.answer.value))
       => /\ last.error = Error("UpdateFailed", <<>>)
          /\ Slot = last.pre /\ Truthy(Slot)

C24_Witness ==
  /\ Completed("updatePost") /\ PostReturned("update")
  /\ LastCall.answer.value = Null
  /\ last.input = FullUpdate
  /\ Failed("UpdateFailed") /\ Slot = last.pre

\* the calls the completed operation issued to the post resource
PostCalls == SelectSeq(last.calls, LAMBDA c : c.res = "post")

ReachesPosts ==
  last.op \in {"getAllPosts", "createPost", "updatePost", "selectPostById"}

\* C25: getAllPosts, createPost, updatePost and selectPostById issue at
\* most one call to the post resource, and when that call throws, the
\* operation throws the same error.
C25_NoRetry ==
  ReachesPosts
    => /\ Len(PostCalls) <= 1
       /\ \A i \in 1..Len(PostCalls) :
            PostCalls[i].answer.error /= NoError
              => /\ last.error = PostCalls[i].answer.error
                 /\ i = Len(PostCalls) /\ LastCall = PostCalls[i]

C25_Witness ==
  /\ Completed("getAllPosts")
  /\ Len(PostCalls) = 1
  /\ PostCalls[1].answer = Throw(BackendError)
  /\ last.error = BackendError

\* C26: in every post a translation returns, created_at equals updated_at;
\* both are the date of modified_gmt when the native post has one and the
\* clock read by the translation otherwise; published_at is the date of
\* date_gmt when the native post has one and that same clock otherwise.
C26_Timestamps ==
  (Completed("WPPostToBlogPost") /\ Succeeded)
    => \E now \in TranslateTimes :
         /\ last.ret.created_at = last.ret.updated_at
         /\ last.ret.updated_at =
              (IF last.input.modified_gmt /= 0 THEN Date(last.input.modified_gmt)
               ELSE Date(now))
         /\ last.ret.published_at =
              (IF last.input.date_gmt /= 0 THEN Date(last.input.date_gmt)
               ELSE Date(now))

C26_Witness ==
  /\ Completed("WPPostToBlogPost") /\ Succeeded
  /\ last.input.modified_gmt = 0 /\ last.input.date_gmt = 1
  /\ last.ret.created_at = Date(3)
  /\ last.ret.published_at = Date(1)

\* call i is a postTag().find that threw, or that returned a tag of the
\* name asked for, case aside
FailedOrMatched(i) ==
  /\ last.calls[i].res = "postTag" /\ last.calls[i].method = "find"
  /\ \/ last.calls[i].answer.error /= NoError
     \/ \E k \in 1..Len(last.calls[i].answer.value) :
          SameName(last.calls[i].answer.value[k].name, last.calls[i].arg)

\* C27: getOrCreateTagIds of n names issues n lookups, one for each name in
\* the order given, and at most n creates; every create directly follows
\* the lookup of its own name, which returned without a tag of that name,
\* case aside; no create follows a lookup that threw or that returned such
\* a tag.
C27_OneLookupPerName ==
  Completed("getOrCreateTagIds")
    => /\ Len(FindCalls) = Len(last.input.tagNames)
       /\ \A k \in 1..Len(FindCalls) : FindCalls[k].arg = last.input.tagNames[k]
       /\ Len(last.calls) - Len(FindCalls) <= Len(last.input.tagNames)
       /\ \A i \in 1..Len(last.calls) :
            /\ IsCreate(i)
                 => /\ i > 1
                    /\ LookedUp(i - 1, last.calls[i].arg.name)
                    /\ ~FailedOrMatched(i - 1)
            /\ (FailedOrMatched(i) /\ i < Len(last.calls)) => ~IsCreate(i + 1)

C27_Witness ==
  /\ Completed("getOrCreateTagIds")
  /\ last.pre = Array(InitialTags)
  /\ last.input.tagNames = <<"New", "tech", "Tech">>
  /\ last.input.faults = <<"none", "findThrows", "none">>
  /\ Len(FindCalls) = 3 /\ Len(last.calls) = 4
  /\ last.ret = <<2, 1>>

WritesSlot == last.op \in {"createPost", "updatePost", "selectPostById"}

\* the errors of a refused precondition, a refused feature image, a post
\* not found, a backend failure and an empty backend result
FailureKinds ==
  {"AlreadySelected", "NoPostSelected", "FeatureImage", "NotFound",
   "BackendError", "CreateFailed", "UpdateFailed"}

\* C28: when createPost, updatePost or selectPostById throws for a refused
\* precondition, a refused feature image, a post not found, a backend
\* failure or an empty backend result, the current post of the agent is
\* exactly the one the operation found.
C28_FailureKeepsSlot ==
  (WritesSlot /\ last.error.kind \in FailureKinds) => Slot = last.pre

C28_Witness ==
  /\ Completed("updatePost") /\ Failed("BackendError")
  /\ last.input.tags = Some(<<"tech", "New">>)
  /\ Len(last.calls) > 1
  /\ Truthy(Slot) /\ Slot = last.pre

\* the backend returned to the completed operation a post that lacks a
\* field the translation requires
ReturnedUntranslatable ==
  \/ /\ last.op \in {"createPost", "updatePost"}
     /\ last.calls /= <<>> /\ LastCall.res = "post"
     /\ LastCall.answer.error = NoError
     /\ Truthy(LastCall.answer.value) /\ ~Translatable(LastCall.answer.value)
  \/ /\ Completed("selectPostById")
     /\ last.calls /= <<>> /\ LastCall.answer.error = NoError
     /\ ~noFirstPost(LastCall.answer.value) /\ ~Translatable(FoundPost)

\* C29: when the post the backend returns to createPost, updatePost or
\* selectPostById lacks id, title, content or status, the operation throws
\* and the current post is the one it found.
C29_UntranslatableKeepsSlot ==
  ReturnedUntranslatable
    => /\ ~Succeeded
       /\ Slot = last.pre

\* C30: a step that is an operation on one agent leaves the current post of
\* every other agent as it was, and whether createPost or updatePost is
\* refused for its precondition is decided by the current post of the
\* agent it is invoked with alone.
C30_SessionsIsolated ==
  [][\A s \in Sessions :
       /\ (s \in Attached /\ last'.session /= s) => slots'[s] = slots[s]
       /\ Ran("createPost", s)
            => (last'.error.kind = "AlreadySelected" <=> Truthy(slots[s]))
       /\ Ran("updatePost", s)
            => (last'.error.kind = "NoPostSelected" <=> ~Truthy(slots[s]))]_vars

C30_Witness ==
  /\ Completed("createPost") /\ Succeeded /\ last.session = "A"
  /\ "B" \in Attached /\ Truthy(slots["B"])
  /\ slots["B"] /= Slot

----------------------------------------------------------------------------
(* SpecInterleave: one updatePost of agent "A" taken apart at its awaits,  *)
(* with clearCurrentPost, reset and selectPostById of the same agent       *)
(* running while it is suspended.  While the updatePost is in flight,      *)
(* `last` holds it: op names the await it is suspended at, pre the current *)
(* post it read when it was invoked, calls the calls it has issued, ret    *)
(* the tag ids resolved so far; its input holds the data it was given and, *)
(* as `between`, the operations that ran meanwhile with the current post   *)
(* each one left.                                                           *)

\* the updates of SpecInterleave
InterleaveDatas ==
  {d \in UpdateDatas :
     \/ d = FullUpdate
     \/ d.title = Some("Post")
     \/ d.content = Some("# Hi")
     \/ d.tags = Some(<<"New">>)
     \/ d.feature_image = Some([id |-> None])
     \/ d.status = Some("draft")}

\* the posts of SpecInterleave: those of the backend that lack no field
WholePosts == {p \in BackendPosts : Lacks(p) = 0}

\* the current post the agent has when updatePost is invoked
InterleaveInit ==
  /\ \E post \in {Null} \cup WholePosts : slots = ("A" :> post)
  /\ tagStore = InitialTags
  /\ last = NoOp

\* mutant: updatePost reads the current post again when it builds the call
capturedPostReread(read, current) == IF Truthy(current) THEN current ELSE read

\* const currentPost = agent.getState(WordPressBlogState).currentPost: the
\* post the handler works with, given the one it read when it was invoked
\* and the one the agent has now
capturedPost(read, current) == read

Suspended == last.op \in {"updatePost.marked", "updatePost.tags", "updatePost.update"}

Flight(await, input, pre, calls, tagIds) ==
  Done(await, "A", input, pre, calls, Return(tagIds))

\* From the end of the tag stage to the await of post().update: the check
\* of the feature image, then the call.  The answer is filled in when it
\* arrives.
sendUpdate(input, pre, calls, tagIds) ==
  LET post == capturedPost(pre, slots["A"])
  IN  IF badFeatureImage(input.data.feature_image)
      THEN Done("updatePost", "A", input, pre, calls, Throw(FeatureImageError))
      ELSE Flight("updatePost.update", input, pre,
                  calls \o <<Call("post", "update",
                                  [data |-> updateData(post, input.data, tagIds),
                                   id |-> updateTarget(post)],
                                  NotAsked)>>,
                  tagIds)

\* from the end of await marked(content) on
afterMarked(input, pre) ==
  IF input.data.tags /= None
  THEN Flight("updatePost.tags", input, pre, <<>>, <<>>)
  ELSE sendUpdate(input, pre, <<>>, <<>>)

\* updatePost is invoked and runs to its first await
Begin ==
  /\ Idle
  /\ \E data \in InterleaveDatas :
       LET input == [data |-> data, between |-> <<>>]
           pre == slots["A"]
       IN  last' = IF ~Truthy(pre)
                   THEN Done("updatePost", "A", input, pre, <<>>,
                             Throw(Error("NoPostSelected", <<>>)))
                   ELSE IF TruthyStr(data.content)
                   THEN Flight("updatePost.marked", input, pre, <<>>, <<>>)
                   ELSE afterMarked(input, pre)
  /\ UNCHANGED <<slots, tagStore>>

\* marked has rendered the content
MarkedDone ==
  /\ last.op = "updatePost.marked"
  /\ last' = afterMarked(last.input, last.pre)
  /\ UNCHANGED <<slots, tagStore>>

\* the tag resolver handles its next name; after the last one the handler
\* goes on to the update
TagStep ==
  /\ last.op = "updatePost.tags"
  /\ \E fault \in TagFaults :
       LET tags == last.input.data.tags[1]
           k == Len(SelectSeq(last.calls, LAMBDA c : c.method = "find")) + 1
           acc == handleTag([tagIds |-> last.ret, calls |-> last.calls, store |-> tagStore],
                            tags[k], fault)
       IN  /\ tagStore' = acc.store
           /\ last' = IF k < Len(tags)
                      THEN Flight("updatePost.tags", last.input, last.pre, acc.calls, acc.tagIds)
                      ELSE sendUpdate(last.input, last.pre, acc.calls, acc.tagIds)
  /\ UNCHANGED slots

\* post().update answers and updatePost runs to its end
Receive ==
  /\ last.op = "updatePost.update"
  /\ \E answer \in PostAnswers, now \in Times :
       LET calls == [last.calls EXCEPT ![Len(last.calls)].answer = answer]
           out == IF answer.error /= NoError THEN Throw(answer.error)
                  ELSE IF Truthy(answer.value) THEN WPPostToBlogPost(answer.value, now)
                  ELSE Throw(Error("UpdateFailed", <<>>))
       IN  /\ slots' = SetSlot("A", IF answer.error /= NoError THEN slots["A"]
                                    ELSE updatedPost(slots["A"], answer.value))
           /\ last' = Done("updatePost", "A", last.input, last.pre, calls, out)
  /\ UNCHANGED tagStore

\* an operation of the same agent runs while updatePost is suspended and
\* leaves the current post v
Between(op, v) ==
  /\ Suspended
  /\ Len(last.input.between) < MaxBetween
  /\ slots' = SetSlot("A", v)
  /\ last' = [last EXCEPT !.input.between = @ \o <<[op |-> op, slot |-> v]>>]
  /\ UNCHANGED tagStore

ClearBetween == Between("clearCurrentPost", clearCurrentPost(slots["A"]))

ResetBetween == \E what \in ResetWhats : Between("reset", reset(slots["A"], what))

\* what post().find(id) answers a selectPostById that runs meanwhile
BetweenAnswers ==
  {Throw(BackendError), Return(Array(<<>>))} \cup {Return(Array(<<p>>)) : p \in WholePosts}

SelectBetween ==
  \E answer \in BetweenAnswers :
    Between("selectPostById", selectedPost(slots["A"], answer.value))

InterleaveNext ==
  \/ Begin
  \/ MarkedDone
  \/ TagStep
  \/ Receive
  \/ ClearBetween
  \/ ResetBetween
  \/ SelectBetween

SpecInterleave == InterleaveInit /\ [][InterleaveNext]_vars

\* the updatePost of SpecInterleave has called post().update
UpdateCalled ==
  /\ last.op \in {"updatePost.update", "updatePost"}
  /\ last.calls /= <<>>
  /\ LastCall.res = "post" /\ LastCall.method = "update"

\* C31: whatever clearCurrentPost, reset and selectPostById did to the
\* current post while updatePost was suspended, the call to post().update
\* is addressed to the id of the post that was current when updatePost was
\* invoked, and when the call returns a post, that post is the current
\* post once updatePost has ended.
C31_UpdateReadsSlotOnce ==
  /\ UpdateCalled
       => /\ LastCall.arg.id = last.pre.id
          /\ LastCall.arg.data.id = last.pre.id
  /\ (Completed("updatePost") /\ PostReturnedRecord("update"))
       => Slot = LastCall.answer.value

C31_Witness ==
  /\ Completed("updatePost") /\ PostReturnedRecord("update") /\ Succeeded
  /\ last.pre.id = 1
  /\ Len(last.input.between) = 2
  /\ last.input.between[1].op = "selectPostById"
  /\ Truthy(last.input.between[1].slot) /\ last.input.between[1].slot.id = 2
  /\ last.input.between[2].slot = Null
  /\ LastCall.arg.id = 1
  /\ Slot = LastCall.answer.value

====
